---------------------------- MODULE Spec2Model ----------------------------
(***************************************************************************)
(* ipc-link: request/reply correlation over node-ipc.                      *)
(*                                                                         *)
(* Every endpoint is one process running one Server (Server.js).  The      *)
(* model keeps, per endpoint, the pending table Server#_promises, the      *)
(* known-peer set Server#_sockets, the flag Server#_ready and the listener *)
(* installed through Server.on; the promise objects created by              *)
(* Server._sendRequest; the send() calls suspended in `await connectTo`;   *)
(* the connectTo attempts with their `ignore` flag; the node-ipc client    *)
(* objects (ipc.of[name]) the attempts subscribe to; the frames in flight  *)
(* in both directions and the Message objects handed to the application.   *)
(*                                                                         *)
(* JavaScript values are written as their JSON literal text ("true",       *)
(* "false", "0", ...); "undefined" stands for the value undefined.  An     *)
(* object is a function from the names of its own properties to values.    *)
(***************************************************************************)
EXTENDS Integers, Sequences, FiniteSets, TLC

\* ------------------------------------------------------------- bounds ----
MaxClock    == 1   \* Date.now() takes the values StartClock .. StartClock + MaxClock
MaxHandles  == 2   \* promise objects created by _sendRequest
MaxAttempts == 1   \* connectTo calls
MaxMessages == 1   \* Message objects delivered to the application
MaxCalls    == 2   \* reply() calls the application makes on one Message
MaxForwarders == 2 \* listeners of one event that Server puts on ipc.server

\* --------------------------------------------------- values and objects --
Names     == {"one", "two"}
\* the roles of README and test/link: the application of test-one sends,
\* the application of test-two serves and replies
Senders   == {"one"}
Servers   == {"two"}
Undefined == "undefined"
JsTrue    == "true"
JsFalse   == "false"

\* ToBoolean of the values the model uses (the test `parsed.success ? :`)
Truthy(v) == v \notin {JsFalse, Undefined, "0", "null"}

\* o[f] for an own property, undefined otherwise
Get(o, f) == IF f \in DOMAIN o THEN o[f] ELSE Undefined

\* the `in` operator / hasOwnProperty
Has(o, f) == f \in DOMAIN o

\* { ...a, ...b }: the properties of b are applied over those of a
Spread(a, b) ==
    [f \in (DOMAIN a) \cup (DOMAIN b) |-> IF f \in DOMAIN b THEN b[f] ELSE a[f]]

\* JSON.parse(JSON.stringify(o)): properties whose value is undefined are
\* not written; the nested object under `data` is treated the same way.
PlainJSON(o) == [f \in {g \in DOMAIN o : o[g] # Undefined} |-> o[f]]

JSONRoundTrip(o) ==
    [f \in {g \in DOMAIN o : g = "data" \/ o[g] # Undefined} |->
        IF f = "data" THEN PlainJSON(o[f]) ELSE o[f]]

\* Number.prototype.toString(36)
Digits ==
    << "0", "1", "2", "3", "4", "5", "6", "7", "8", "9", "a", "b", "c", "d",
       "e", "f", "g", "h", "i", "j", "k", "l", "m", "n", "o", "p", "q", "r",
       "s", "t", "u", "v", "w", "x", "y", "z" >>

RECURSIVE toString36(_)
toString36(n) ==
    IF n < 36 THEN Digits[n + 1]
    ELSE toString36(n \div 36) \o Digits[(n % 36) + 1]

\* String.fromCharCode((1 % 26) + 97)
Suffix == Digits[((1 % 26) + 97) - 87 + 1]

\* first clock value of the model; chosen so that toString(36) grows a digit
StartClock == 35

\* Server._generateID()
_generateID(t) == toString36(t) \o Suffix


\* ---------------------------------------------------------- input sets ---
\* payloads handed to send(): without and with a caller-supplied id
SendData ==
    { [content |-> "Hello"], [id |-> "k1", content |-> "Hello"] }

\* frames the process serving a peer name may write on a link (test/raw
\* processes write with node-ipc directly): any id, any success, also absent
FrameIds      == {"k1", _generateID(StartClock)}
SuccessValues == {JsTrue, JsFalse, Undefined}
PeerFrames ==
    { PlainJSON([id |-> i, success |-> s, response |-> "Hello world!"]) :
        i \in FrameIds, s \in SuccessValues }

\* -------------------------------------------------------------- state ----
VARIABLES
    now,        \* Date.now()
    _promises,  \* Server#_promises of each endpoint: id -> index into handles
    _sockets,   \* Server#_sockets of each endpoint
    _ready,     \* Server#_ready of each endpoint
    started,    \* ipc.server of the endpoint is listening
    listener,   \* the 'message' listener installed through Server.on
    handles,    \* the promises created by _sendRequest, in creation order
    sends,      \* the send() calls suspended at `await connectTo`
    attempts,   \* the connectTo() calls
    clients,    \* the node-ipc client objects created by ipc.connectTo
    toServer,   \* frames written on a client socket, not yet read by the server
    toClient,   \* frames written to a client, not yet read by it
    messages,   \* the Message objects built for the 'message' listener
    replyArgs,  \* the Message and the arguments of the latest reply() call
    envelope,   \* the object that call handed to _sendRequest, if it got there
    ipcConfigId, \* ipc.config.id, as the process of each endpoint reads it
    forwarders, \* the 'message' listeners that on and once put on ipc.server
    last        \* the operation that ran last (history, for the properties)

vars ==
    << now, _promises, _sockets, _ready, started, listener, handles, sends,
       attempts, clients, toServer, toClient, messages, replyArgs, envelope,
       ipcConfigId, forwarders, last >>

NoArgs     == [none |-> "none"]
NoEnvelope == [none |-> "none"]

NoFrame == [none |-> "none"]

\* ipc.server without a listener added by Server.on or Server.once
NoForwarders == [on |-> 0, once |-> 0]

\* the record kept in `last` for an inbound frame, destroy() and reply():
\* operation, endpoint, id, the frame, whether the frame's id was in the
\* pending table, whether the operation before it was a frame of the same
\* id that was (or, for destroy(), a destroy() of the same endpoint), and
\* the resolve and reject calls the operation made
Did(op, e, id, frame, hit, dup, out) ==
    [op |-> op, e |-> e, id |-> id, frame |-> frame, hit |-> hit,
     dup |-> dup, out |-> out]

\* operations the properties need no record of
Other == Did("other", "none", Undefined, NoFrame, FALSE, FALSE, << >>)

EmptyMap == [k \in {} |-> 0]

MapSet(m, k, v) == [x \in (DOMAIN m) \cup {k} |-> IF x = k THEN v ELSE m[x]]

MapDelete(m, k) == [x \in (DOMAIN m) \ {k} |-> m[x]]

\* a clear() that removes nothing
MapClearNothing(m) == m

\* Map.prototype.clear
MapClear(m) == EmptyMap

Range(m) == {m[k] : k \in DOMAIN m}

\* what `handles` keeps of a promise once it is settled: its outcome went
\* to whoever holds the promise
Settled == [owner |-> "none", id |-> Undefined, by |-> "none"]

\* the promises that are not settled
Pending(hs) == {h \in 1..Len(hs) : hs[h] # Settled}

\* Calling resolve or reject of promise h.  The call is listed in `out`;
\* the first call on a promise settles it, a later one has no effect.
SettleHandle(w, h, how, v) ==
    [w EXCEPT !.handles[h] = Settled,
              !.out = Append(@, [h |-> h, how |-> how, value |-> v,
                                 first |-> w.handles[h] # Settled])]

\* Server#name: `get name() { return ipc.config.id; }`
this_name(e) == ipcConfigId[e]

\* Server.hasSocket
hasSocket(e, name) == name \in _sockets[e]

\* ipc.of[name] of endpoint e: index of the client object, 0 when absent
ipcOf(cs, e, name) ==
    LET live == {k \in 1..Len(cs) :
                    cs[k].owner = e /\ cs[k].target = name /\ cs[k].current}
    IN  IF live = {} THEN 0 ELSE CHOOSE k \in live : TRUE

\* Server.getSocket: (ipc.of[name] && ipc.of[name].socket) || null
getSocket(cs, e, name) == ipcOf(cs, e, name)

\* a write on the socket of client k reaches the peer only while connected
Writable(cs, k) == cs[k].state = "connected" /\ ~cs[k].closed

Init ==
    /\ now = StartClock
    /\ _promises = [e \in Names |-> EmptyMap]
    /\ _sockets = [e \in Names |-> {}]
    /\ _ready = [e \in Names |-> FALSE]
    /\ started = [e \in Names |-> FALSE]
    /\ listener = [e \in Names |-> "none"]
    /\ handles = << >>
    /\ sends = << >>
    /\ attempts = << >>
    /\ clients = << >>
    /\ toServer = [e \in Names |-> << >>]
    /\ toClient = << >>
    /\ messages = << >>
    /\ replyArgs = NoArgs
    /\ envelope = NoEnvelope
    /\ ipcConfigId = [e \in Names |-> e]
    /\ forwarders = [e \in Names |-> NoForwarders]
    /\ last = Other

\* the clock advances
Tick ==
    /\ now < StartClock + MaxClock
    /\ now' = now + 1
    /\ UNCHANGED << _promises, _sockets, _ready, started, listener, handles,
                    sends, attempts, clients, toServer, toClient, messages >>
    /\ last' = Other
    /\ UNCHANGED << replyArgs, envelope, ipcConfigId, forwarders >>

\* ------------------------------------------------------ the operations ---
\* The promises, the pending tables and the frames in flight, as one record
\* that the operators below thread through the steps of a handler.
World == [handles |-> handles, promises |-> _promises,
          toServer |-> toServer, toClient |-> toClient, out |-> << >>]

\* ipc.server.emit(socket, 'message', text): the text travels to the other
\* end of the socket while the link is up, and is lost otherwise.  A frame
\* written to a name whose server is not listening here goes to a process
\* these endpoints do not run.
Emit(w, cs, socket, frame) ==
    IF ~Writable(cs, socket.k) THEN w
    ELSE IF socket.side = "client"
         THEN IF started[cs[socket.k].target]
              THEN [w EXCEPT !.toServer[cs[socket.k].target] =
                               Append(@, [frame |-> frame,
                                          socket |-> socket.k])]
              ELSE w
         ELSE [w EXCEPT !.toClient[socket.k] = Append(@, frame)]

\* _sendRequest that emits and stores nothing
_sendRequestNoSet(w, cs, e, socket, data, by) ==
    LET h   == Len(w.handles) + 1
        new == [owner |-> e, id |-> Get(data, "id"), by |-> by]
    IN  IF socket.k = 0
        THEN SettleHandle([w EXCEPT !.handles = Append(@, new)],
                          h, "rejected", [error |-> "TypeError"])
        ELSE LET sent == Emit(w, cs, socket, JSONRoundTrip(data))
             IN  [sent EXCEPT !.handles = Append(@, new)]

\* _sendRequest with a table that holds the latest request only
_sendRequestSingle(w, cs, e, socket, data, by) ==
    LET h   == Len(w.handles) + 1
        new == [owner |-> e, id |-> Get(data, "id"), by |-> by]
    IN  IF socket.k = 0
        THEN SettleHandle([w EXCEPT !.handles = Append(@, new)],
                          h, "rejected", [error |-> "TypeError"])
        ELSE LET sent == Emit(w, cs, socket, JSONRoundTrip(data))
             IN  [sent EXCEPT !.handles = Append(@, new),
                              !.promises[e] =
                                 MapSet(EmptyMap, Get(data, "id"), h)]

\* Server._sendRequest(socket, data) of endpoint e.  The executor emits and
\* then stores { resolve, reject } under data.id; an exception of emit (the
\* socket is null) rejects the new promise and skips the store.
_sendRequest(w, cs, e, socket, data, by) ==
    LET h   == Len(w.handles) + 1
        new == [owner |-> e, id |-> Get(data, "id"), by |-> by]
    IN  IF socket.k = 0
        THEN SettleHandle([w EXCEPT !.handles = Append(@, new)],
                          h, "rejected", [error |-> "TypeError"])
        ELSE LET sent == Emit(w, cs, socket, JSONRoundTrip(data))
             IN  [sent EXCEPT !.handles = Append(@, new),
                              !.promises[e] = MapSet(@, Get(data, "id"), h)]

\* SendBody that generates an id whatever the payload holds
SendBodyGenerated(w, cs, e, name, data, t) ==
    _sendRequest(w, cs, e,
                 [k |-> getSocket(cs, e, name), side |-> "client"],
                 [id |-> _generateID(t), sentBy |-> this_name(e),
                  data |-> data], "send")

\* the part of Server.send after the await: id selection and _sendRequest
SendBody(w, cs, e, name, data, t) ==
    LET requestID == IF Has(data, "id") THEN data.id ELSE _generateID(t)
    IN  _sendRequest(w, cs, e,
                     [k |-> getSocket(cs, e, name), side |-> "client"],
                     [id |-> requestID, sentBy |-> this_name(e),
                      data |-> data], "send")

\* ipc.connectTo(name, callback): the client object ipc.of[name] is reused
\* while its socket is not destroyed, and replaced by a new one otherwise
ConnectClient(cs, e, name) ==
    LET k == ipcOf(cs, e, name)
    IN  IF k # 0 /\ cs[k].state \in {"connecting", "connected"}
        THEN [clients |-> cs, k |-> k]
        ELSE [clients |->
                Append([j \in 1..Len(cs) |->
                           IF j = k THEN [cs[j] EXCEPT !.current = FALSE]
                           ELSE cs[j]],
                       [owner |-> e, target |-> name, state |-> "connecting",
                        current |-> TRUE, closed |-> FALSE]),
              k |-> Len(cs) + 1]

\* the promise and the `ignore` flag of one Server.connectTo call
NewAttempt(k) ==
    [client |-> k, ignore |-> FALSE, state |-> "pending", fired |-> {}]

\* each suspended send will create one promise
CanCreateHandle == Len(handles) + Len(sends) < MaxHandles

\* Server.connectTo(name), called by the application
ConnectTo(e, name) ==
    /\ Len(attempts) < MaxAttempts
    /\ LET c == ConnectClient(clients, e, name)
       IN  /\ clients' = c.clients
           /\ attempts' = Append(attempts, NewAttempt(c.k))
           /\ toClient' = IF Len(c.clients) > Len(clients)
                          THEN Append(toClient, << >>) ELSE toClient
    /\ UNCHANGED << now, _promises, _sockets, _ready, started, listener,
                    handles, sends, toServer, messages >>
    /\ last' = Other
    /\ UNCHANGED << replyArgs, envelope, ipcConfigId, forwarders >>

\* Server.send(name, data) for a known peer: runs to the end of _sendRequest
SendKnown(e, name, data) ==
    /\ hasSocket(e, name)
    /\ CanCreateHandle
    /\ LET w == SendBody(World, clients, e, name, data, now)
       IN  /\ handles' = w.handles
           /\ _promises' = w.promises
           /\ toServer' = w.toServer
           /\ toClient' = w.toClient
           /\ last' = IF w.out = << >> THEN Other
                      ELSE Did("send", e, Undefined, NoFrame, FALSE, FALSE,
                               w.out)
    /\ UNCHANGED << now, _sockets, _ready, started, listener, sends, attempts,
                    clients, messages >>
    /\ UNCHANGED << replyArgs, envelope, ipcConfigId, forwarders >>

\* Server.send(name, data) for an unknown peer: calls connectTo and suspends
SendUnknown(e, name, data) ==
    /\ ~hasSocket(e, name)
    /\ CanCreateHandle
    /\ Len(attempts) < MaxAttempts
    /\ LET c == ConnectClient(clients, e, name)
       IN  /\ clients' = c.clients
           /\ attempts' = Append(attempts, NewAttempt(c.k))
           /\ toClient' = IF Len(c.clients) > Len(clients)
                          THEN Append(toClient, << >>) ELSE toClient
           /\ sends' = Append(sends, [owner |-> e, target |-> name,
                                      data |-> data,
                                      attempt |-> Len(attempts) + 1])
    /\ UNCHANGED << now, _promises, _sockets, _ready, started, listener,
                    handles, toServer, messages >>
    /\ last' = Other
    /\ UNCHANGED << replyArgs, envelope, ipcConfigId, forwarders >>

\* OnSignal with resolve and reject that settle a settled promise again
OnSignalResettle(a, sig) ==
    IF sig \in a.fired THEN a
    ELSE LET f == [a EXCEPT !.fired = @ \cup {sig}]
         IN  CASE sig = "connect" ->
                    [f EXCEPT !.ignore = TRUE, !.state = "resolved"]
               [] sig = "disconnect" ->
                    IF a.ignore THEN f ELSE [f EXCEPT !.state = "rejected"]
               [] sig = "destroy" ->
                    [f EXCEPT !.ignore = TRUE, !.state = "rejected"]

\* the once('connect' | 'disconnect' | 'destroy') handler of one attempt
OnSignal(a, sig) ==
    IF sig \in a.fired THEN a
    ELSE LET f == [a EXCEPT !.fired = @ \cup {sig}]
         IN  CASE sig = "connect" ->
                    [f EXCEPT !.ignore = TRUE,
                              !.state = IF @ = "pending" THEN "resolved" ELSE @]
               [] sig = "disconnect" ->
                    IF a.ignore THEN f
                    ELSE [f EXCEPT !.state =
                                     IF @ = "pending" THEN "rejected" ELSE @]
               [] sig = "destroy" ->
                    [f EXCEPT !.ignore = TRUE,
                              !.state = IF @ = "pending" THEN "rejected" ELSE @]

\* what `out` lists when the promise of a send() call is rejected by the
\* rejection of the connectTo it awaited
SendRejected ==
    [h |-> 0, how |-> "rejected", value |-> [error |-> "connectTo"],
     first |-> TRUE]

\* ResumeSends with a send() that goes on after connectTo was rejected
RECURSIVE ResumeSendsAnyway(_, _, _, _, _, _)
ResumeSendsAnyway(w, ss, as, cs, t, rest) ==
    IF ss = << >> THEN [w |-> w, sends |-> rest]
    ELSE LET s == Head(ss)
         IN  IF as[s.attempt].state \in {"resolved", "rejected"}
             THEN ResumeSendsAnyway(
                      SendBody(w, cs, s.owner, s.target, s.data, t),
                      Tail(ss), as, cs, t, rest)
             ELSE ResumeSendsAnyway(w, Tail(ss), as, cs, t, Append(rest, s))

\* the continuations of the suspended send() calls, run in call order once
\* their connectTo promise is settled: the rest of send, or its rejection.
\* A call that has continued is suspended no more.
RECURSIVE ResumeSends(_, _, _, _, _, _)
ResumeSends(w, ss, as, cs, t, rest) ==
    IF ss = << >> THEN [w |-> w, sends |-> rest]
    ELSE LET s == Head(ss)
         IN  IF as[s.attempt].state = "resolved"
             THEN ResumeSends(SendBody(w, cs, s.owner, s.target, s.data, t),
                              Tail(ss), as, cs, t, rest)
             ELSE IF as[s.attempt].state = "rejected"
                  THEN ResumeSends([w EXCEPT !.out = Append(@, SendRejected)],
                                   Tail(ss), as, cs, t, rest)
                  ELSE ResumeSends(w, Tail(ss), as, cs, t, Append(rest, s))

\* KnownAfter with a 'destroy' handler that leaves the set alone
KnownAfterNoDelete(known, sig, name) ==
    CASE sig = "connect"    -> known \cup {name}
      [] sig = "disconnect" -> known
      [] sig = "destroy"    -> known

\* what the handlers of connectTo do to this._sockets: add(name) on
\* 'connect', nothing on 'disconnect', delete(name) on 'destroy'
KnownAfter(known, sig, name) ==
    CASE sig = "connect"    -> known \cup {name}
      [] sig = "disconnect" -> known
      [] sig = "destroy"    -> known \ {name}

\* what the transport can signal next on a client object
SignalEnabled(c, sig) ==
    /\ ~c.closed
    /\ CASE sig = "connect"    -> c.state \in {"connecting", "disconnected"}
         [] sig = "disconnect" -> c.state \in {"connecting", "connected"}
         [] sig = "destroy"    -> c.state = "disconnected"

StateAfter(sig) ==
    CASE sig = "connect"    -> "connected"
      [] sig = "disconnect" -> "disconnected"
      [] sig = "destroy"    -> "destroyed"

\* frames travelling on the socket of client k are lost when it goes down
DropFrames(q, k) == SelectSeq(q, LAMBDA m : m.socket # k)

\* The client object k emits 'connect', 'disconnect' or 'destroy': every
\* attempt subscribed to it runs its once-handler, then the send() calls
\* awaiting those attempts continue.
Signal(k, sig) ==
    /\ k \in 1..Len(clients)
    /\ SignalEnabled(clients[k], sig)
    /\ LET hit == {a \in 1..Len(attempts) :
                      attempts[a].client = k /\ sig \notin attempts[a].fired}
           e   == clients[k].owner
           cs  == [clients EXCEPT ![k].state = StateAfter(sig)]
           as  == [a \in 1..Len(attempts) |->
                      IF attempts[a].client = k THEN OnSignal(attempts[a], sig)
                      ELSE attempts[a]]
           w0  == IF sig = "connect" THEN World
                  ELSE [World EXCEPT
                           !.toClient[k] = << >>,
                           !.toServer[clients[k].target] = DropFrames(@, k)]
           r   == ResumeSends(w0, sends, as, cs, now, << >>)
       IN  /\ clients' = cs
           /\ attempts' = as
           /\ _sockets' =
                 IF hit = {} THEN _sockets
                 ELSE [_sockets EXCEPT
                         ![e] = KnownAfter(@, sig, clients[k].target)]
           /\ sends' = r.sends
           /\ handles' = r.w.handles
           /\ _promises' = r.w.promises
           /\ toServer' = r.w.toServer
           /\ toClient' = r.w.toClient
           /\ last' = IF r.w.out = << >> THEN Other
                      ELSE Did("signal", e, Undefined, NoFrame, FALSE, FALSE,
                               r.w.out)
    /\ UNCHANGED << now, _ready, started, listener, messages >>
    /\ UNCHANGED << replyArgs, envelope, ipcConfigId, forwarders >>

\* OnReply with `parsed.success !== false` as the test
OnReplyLenient(w, e, parsed) ==
    LET key == Get(parsed, "id")
    IN  IF key \in DOMAIN w.promises[e]
        THEN LET promis == w.promises[e][key]
             IN  SettleHandle([w EXCEPT !.promises[e] = MapDelete(@, key)],
                              promis,
                              IF Get(parsed, "success") # JsFalse
                              THEN "resolved" ELSE "rejected", parsed)
        ELSE w

\* OnReply settling the oldest pending request instead of the one named
OnReplyFifo(w, e, parsed) ==
    IF Get(parsed, "id") \in DOMAIN w.promises[e]
    THEN LET key == CHOOSE x \in DOMAIN w.promises[e] :
                        \A y \in DOMAIN w.promises[e] :
                            w.promises[e][x] <= w.promises[e][y]
             promis == w.promises[e][key]
         IN  SettleHandle([w EXCEPT !.promises[e] = MapDelete(@, key)],
                          promis,
                          IF Truthy(Get(parsed, "success"))
                          THEN "resolved" ELSE "rejected", parsed)
    ELSE w

\* OnReply without `this._promises.delete(parsed.id)`
OnReplyNoDelete(w, e, parsed) ==
    LET key == Get(parsed, "id")
    IN  IF key \in DOMAIN w.promises[e]
        THEN SettleHandle(w, w.promises[e][key],
                          IF Truthy(Get(parsed, "success"))
                          THEN "resolved" ELSE "rejected", parsed)
        ELSE w

\* the 'message' handler that connectTo installs on ipc.of[name]
OnReply(w, e, parsed) ==
    LET key == Get(parsed, "id")
    IN  IF key \in DOMAIN w.promises[e]
        THEN LET promis == w.promises[e][key]
             IN  SettleHandle([w EXCEPT !.promises[e] = MapDelete(@, key)],
                              promis,
                              IF Truthy(Get(parsed, "success"))
                              THEN "resolved" ELSE "rejected", parsed)
        ELSE w

\* every connectTo call on the client object added one 'message' handler
RECURSIVE OnReplyTimes(_, _, _, _)
OnReplyTimes(w, e, parsed, n) ==
    IF n = 0 THEN w ELSE OnReplyTimes(OnReply(w, e, parsed), e, parsed, n - 1)

Handlers(k) == Cardinality({a \in 1..Len(attempts) : attempts[a].client = k})

\* the 'message' event of the client object k: all its handlers run
Deliver(w, k, parsed) ==
    OnReplyTimes(w, clients[k].owner, parsed, Handlers(k))

\* the frames that can arrive next on the client object k: whatever the
\* process serving the peer name writes, and the frame a Message.reply of
\* that process has queued
Arriving(k) ==
    PeerFrames \cup
        (IF k \in 1..Len(toClient) /\ toClient[k] # << >>
         THEN {Head(toClient[k])} ELSE {})

\* a frame arrives on the client object k and its 'message' handlers run
Receive(k, frame) ==
    /\ k \in 1..Len(clients)
    /\ Writable(clients, k)
    /\ LET queued == toClient[k] # << >> /\ frame = Head(toClient[k])
           w == Deliver([World EXCEPT !.toClient[k] =
                                        IF queued THEN Tail(@) ELSE @],
                        k, frame)
           e == clients[k].owner
       IN  /\ handles' = w.handles
           /\ _promises' = w.promises
           /\ toClient' = w.toClient
           /\ last' = Did("frame", e, Get(frame, "id"), frame,
                          Get(frame, "id") \in DOMAIN _promises[e],
                          /\ last.op = "frame" /\ last.hit
                          /\ last.e = e /\ last.id = Get(frame, "id"),
                          w.out)
    /\ UNCHANGED << now, _sockets, _ready, started, listener, sends, attempts,
                    clients, toServer, messages, replyArgs, envelope,
                    ipcConfigId, forwarders >>

\* the payload every pending request is rejected with by destroy()
DestroyReason == [reason |-> "Client destroyed."]

\* for (const promise of this._promises.values()) promise.reject(reason)
RECURSIVE RejectAll(_, _, _)
RejectAll(w, hs, reason) ==
    IF hs = {} THEN w
    ELSE LET h == CHOOSE x \in hs : \A y \in hs : x <= y
         IN  RejectAll(SettleHandle(w, h, "rejected", reason), hs \ {h},
                       reason)

\* Server.destroy()
Destroy(e) ==
    LET w    == RejectAll(World, Range(_promises[e]), DestroyReason)
        gone == {k \in 1..Len(clients) :
                    \E name \in _sockets[e] : k = ipcOf(clients, e, name)}
    IN  /\ handles' = w.handles
        /\ _promises' = [_promises EXCEPT ![e] = MapClear(@)]
        \* ipc.disconnect(name): the client is closed and leaves ipc.of
        /\ clients' = [k \in 1..Len(clients) |->
                          IF k \in gone
                          THEN [clients[k] EXCEPT !.closed = TRUE,
                                                  !.current = FALSE]
                          ELSE clients[k]]
        /\ toClient' = [k \in 1..Len(toClient) |->
                           IF k \in gone THEN << >> ELSE toClient[k]]
        /\ toServer' = [f \in Names |->
                           SelectSeq(toServer[f],
                                     LAMBDA m : m.socket \notin gone)]
        /\ _sockets' = [_sockets EXCEPT ![e] = {}]
        \* removeAllListeners()
        /\ listener' = [listener EXCEPT ![e] = "none"]
        \* if (this._ready) this.stop()
        /\ started' = IF _ready[e] THEN [started EXCEPT ![e] = FALSE]
                      ELSE started
        /\ UNCHANGED << now, _ready, sends, attempts, messages >>
        /\ last' = Did("destroy", e, Undefined, NoFrame, FALSE,
                       last.op = "destroy" /\ last.e = e, w.out)
        /\ UNCHANGED << replyArgs, envelope, ipcConfigId, forwarders >>

\* Server.on(event, callback) for 'message' and 'raw': both listen on
\* 'message'; nothing is installed when that event already has a listener
On(e, event) ==
    /\ event \in {"message", "raw"}
    /\ forwarders[e].on + forwarders[e].once < MaxForwarders
    /\ listener' = IF listener[e] = "none"
                   THEN [listener EXCEPT ![e] = event] ELSE listener
    \* ipc.server.on(eventName, this.emit.bind(this, eventName))
    /\ forwarders' = IF listener[e] = "none"
                     THEN [forwarders EXCEPT ![e].on = @ + 1] ELSE forwarders
    /\ listener' # listener
    /\ UNCHANGED << now, _promises, _sockets, _ready, started, handles, sends,
                    attempts, clients, toServer, toClient, messages >>
    /\ last' = Other
    /\ UNCHANGED << replyArgs, envelope, ipcConfigId >>

\* Server.once(event, callback) for 'message' and 'raw': as Server.on, with
\* super.once and ipc.server.once
Once(e, event) ==
    /\ event \in {"message", "raw"}
    /\ forwarders[e].on + forwarders[e].once < MaxForwarders
    /\ listener' = IF listener[e] = "none"
                   THEN [listener EXCEPT ![e] = "once " \o event]
                   ELSE listener
    /\ forwarders' = IF listener[e] = "none"
                     THEN [forwarders EXCEPT ![e].once = @ + 1]
                     ELSE forwarders
    /\ listener' # listener
    /\ UNCHANGED << now, _promises, _sockets, _ready, started, handles, sends,
                    attempts, clients, toServer, toClient, messages >>
    /\ last' = Other
    /\ UNCHANGED << replyArgs, envelope, ipcConfigId >>

\* Server.start()
Start(e) ==
    /\ ~started[e]
    /\ started' = [started EXCEPT ![e] = TRUE]
    /\ UNCHANGED << now, _promises, _sockets, _ready, listener, handles,
                    sends, attempts, clients, toServer, toClient, messages >>
    /\ last' = Other
    /\ UNCHANGED << replyArgs, envelope, ipcConfigId, forwarders >>

\* new Message that does not copy response.sentBy
NewMessageNoSentBy(e, socket, response) ==
    [client |-> e, socket |-> socket, id |-> Get(response, "id"),
     sentBy |-> Undefined, data |-> Get(response, "data"),
     _replied |-> FALSE, outcomes |-> << >>]

\* new Message(client, socket, response)
NewMessage(e, socket, response) ==
    [client |-> e, socket |-> socket, id |-> Get(response, "id"),
     sentBy |-> Get(response, "sentBy"), data |-> Get(response, "data"),
     _replied |-> FALSE, outcomes |-> << >>]

\* the listener was given to once, and is removed when it is called
IsOnce(l) == l \in {"once message", "once raw"}

\* the listener was given for 'message', and gets a Message
Wraps(l) == l \in {"message", "once message"}

RECURSIVE AppendTimes(_, _, _)
AppendTimes(q, m, n) ==
    IF n = 0 THEN q ELSE AppendTimes(Append(q, m), m, n - 1)

\* The server of endpoint e reads a frame and emits 'message': each
\* listener that on and once put on ipc.server emits 'message' on the
\* Server, and those put by once are removed.  The listener installed for
\* 'message' wraps the text in a Message, the one installed for 'raw' gets
\* the text, and without a listener the frame is dropped.
ServerReceive(e) ==
    LET n     == forwarders[e].on + forwarders[e].once
        calls == IF listener[e] = "none" THEN 0
                 ELSE IF IsOnce(listener[e]) THEN (IF n > 0 THEN 1 ELSE 0)
                 ELSE n
        made  == IF Wraps(listener[e]) THEN calls ELSE 0
    IN  /\ started[e]
        /\ toServer[e] # << >>
        /\ Len(messages) + made <= MaxMessages
        /\ toServer' = [toServer EXCEPT ![e] = Tail(@)]
        /\ messages' = AppendTimes(messages,
                                   NewMessage(e, Head(toServer[e]).socket,
                                              Head(toServer[e]).frame),
                                   made)
        /\ listener' = IF IsOnce(listener[e]) /\ n > 0
                       THEN [listener EXCEPT ![e] = "none"] ELSE listener
        /\ forwarders' = [forwarders EXCEPT ![e].once = 0]
        /\ UNCHANGED << now, _promises, _sockets, _ready, started, handles,
                        sends, attempts, clients, toClient >>
        /\ last' = Other
        /\ UNCHANGED << replyArgs, envelope, ipcConfigId >>

\* the descriptor of Message#_replied is { value: false, configurable: true }:
\* `writable` is absent, which makes the property read-only
RepliedWritable == FALSE

\* reply(data, success) without a default for success
DefaultSuccessNone(success) == success

\* the parameter default `success = true`
DefaultSuccess(success) == IF success = Undefined THEN JsTrue ELSE success

\* { ...data, success }: success applied over the fields of data
ReplyEnvelopeDataFirst(success, data) == Spread(data, [success |-> success])

\* the object literal { success, ...data } handed to _sendRequest by reply
ReplyEnvelope(success, data) == Spread([success |-> success], data)

\* Message.reply(data, success) on the Message m.  The method is strict
\* code, so the assignment to the read-only _replied throws a TypeError and
\* reply ends there.  `outcomes` lists how the reply calls on m ended.
Reply(m, call) ==
    /\ m \in 1..Len(messages)
    /\ Len(messages[m].outcomes) < MaxCalls
    /\ LET msg     == messages[m]
           success == DefaultSuccess(call.success)
       IN  /\ replyArgs' = [m |-> m, id |-> msg.id, data |-> call.data,
                            success |-> call.success]
           /\ last' = Did("reply", msg.client, msg.id, NoFrame, FALSE, FALSE,
                          << >>)
           /\ IF msg._replied
              THEN /\ messages' = [messages EXCEPT ![m].outcomes =
                                                     Append(@, "rejected")]
                   /\ envelope' = NoEnvelope
                   /\ UNCHANGED << handles, _promises, toServer, toClient >>
              ELSE IF ~RepliedWritable
              THEN /\ messages' = [messages EXCEPT ![m].outcomes =
                                                     Append(@, "TypeError")]
                   /\ envelope' = NoEnvelope
                   /\ UNCHANGED << handles, _promises, toServer, toClient >>
              ELSE LET w == _sendRequest(World, clients, msg.client,
                                         [k |-> msg.socket, side |-> "server"],
                                         ReplyEnvelope(success, call.data),
                                         "reply")
                   IN  /\ messages' = [messages EXCEPT
                                         ![m]._replied = TRUE,
                                         ![m].outcomes = Append(@, "sent")]
                       /\ envelope' = ReplyEnvelope(success, call.data)
                       /\ handles' = w.handles
                       /\ _promises' = w.promises
                       /\ toServer' = w.toServer
                       /\ toClient' = w.toClient
    /\ UNCHANGED << now, _sockets, _ready, started, listener, sends, attempts,
                    clients, ipcConfigId, forwarders >>

\* the reply calls of the README and of test/link/test-two.js
ReplyCalls ==
    { [data |-> [response |-> "Hello world!"], success |-> Undefined],
      [data |-> [test |-> "Hello!"], success |-> JsFalse] }

Signals == {"connect", "disconnect", "destroy"}

\* One endpoint whose application sends requests, the transport, and
\* whatever the processes at the other end of its links write back.
Next ==
    \/ Tick
    \/ \E e \in Senders : \E name \in Names \ {e} : \E data \in SendData :
          SendKnown(e, name, data)
    \/ \E e \in Senders : \E name \in Names \ {e} : \E data \in SendData :
          SendUnknown(e, name, data)
    \/ \E k \in 1..MaxAttempts : \E sig \in Signals : Signal(k, sig)
    \/ \E k \in 1..MaxAttempts : \E frame \in Arriving(k) : Receive(k, frame)
    \/ \E e \in Senders : Destroy(e)

Spec == Init /\ [][Next]_vars

\* The two processes of test/link: test-one connects and sends, test-two
\* serves and its 'message' listener replies.  test-two writes to test-one
\* through Message.reply only, and that call ends before it writes (see
\* Reply), so no frame arrives at test-one.
NextLink ==
    \/ \E e \in Senders : \E name \in Names \ {e} : ConnectTo(e, name)
    \/ \E e \in Senders : \E name \in Names \ {e} : \E data \in SendData :
          SendKnown(e, name, data)
    \/ \E e \in Senders : \E name \in Names \ {e} : \E data \in SendData :
          SendUnknown(e, name, data)
    \/ \E k \in 1..MaxAttempts : \E sig \in Signals : Signal(k, sig)
    \/ \E e \in Names : Destroy(e)
    \/ \E e \in Servers : \E event \in {"message", "raw"} : On(e, event)
    \/ \E e \in Servers : Start(e)
    \/ \E e \in Servers : ServerReceive(e)
    \/ \E m \in 1..MaxMessages : \E call \in ReplyCalls : Reply(m, call)

SpecLink == Init /\ [][NextLink]_vars

\* ----------------------------------------- the envelope built by reply ---
\* The expression of Message.reply that builds the reply envelope, applied
\* to the id of a Message and to the arguments of a reply call.
MessageIds == {"k1", _generateID(StartClock), _generateID(StartClock + 1)}

EnvelopeData ==
    { PlainJSON([id |-> i, response |-> r]) :
        i \in {Undefined, "k1", "k9"}, r \in {Undefined, "Hello world!"} }
    \cup
    { [f \in {g \in {"id", "response"} : o[g] # Undefined} \cup {"success"}
          |-> o[f]] :
        o \in [id : {Undefined, "k9"}, response : {Undefined, "Hello world!"},
               success : {JsTrue, JsFalse, Undefined}] }

SuccessArgs == {JsTrue, JsFalse, Undefined}

InitEnvelope ==
    /\ now = StartClock
    /\ _promises = [e \in Names |-> EmptyMap]
    /\ _sockets = [e \in Names |-> {}]
    /\ _ready = [e \in Names |-> FALSE]
    /\ started = [e \in Names |-> FALSE]
    /\ listener = [e \in Names |-> "none"]
    /\ handles = << >>
    /\ sends = << >>
    /\ attempts = << >>
    /\ clients = << >>
    /\ toServer = [e \in Names |-> << >>]
    /\ toClient = << >>
    /\ messages = << >>
    /\ replyArgs \in [m : {0}, id : MessageIds, data : EnvelopeData,
                      success : SuccessArgs]
    /\ envelope = NoEnvelope
    /\ ipcConfigId = [e \in Names |-> e]
    /\ forwarders = [e \in Names |-> NoForwarders]
    /\ last = Other

\* reply(data, success = true) evaluates { success, ...data }
BuildEnvelope ==
    /\ envelope = NoEnvelope
    /\ envelope' = ReplyEnvelope(DefaultSuccess(replyArgs.success),
                                 replyArgs.data)
    /\ UNCHANGED << now, _promises, _sockets, _ready, started, listener,
                    handles, sends, attempts, clients, toServer, toClient,
                    messages, replyArgs, ipcConfigId, forwarders, last >>

NextEnvelope == BuildEnvelope

SpecEnvelope == InitEnvelope /\ [][NextEnvelope]_vars

\* ------------------------------------------------- links and requests ---
\* The sending endpoint with its links, seen together with the frames it
\* puts on them: its application connects, sends and destroys, the
\* transport signals, and the server of the peer name listens.
NextConnect ==
    \/ \E e \in Senders : \E name \in Names \ {e} : ConnectTo(e, name)
    \/ \E e \in Senders : \E name \in Names \ {e} : \E data \in SendData :
          SendKnown(e, name, data)
    \/ \E e \in Senders : \E name \in Names \ {e} : \E data \in SendData :
          SendUnknown(e, name, data)
    \/ \E k \in 1..MaxAttempts : \E sig \in Signals : Signal(k, sig)
    \/ \E e \in Senders : Destroy(e)
    \/ \E e \in Servers : Start(e)

SpecConnect == Init /\ [][NextConnect]_vars

\* ------------------------------------------ _sendRequest on its inputs ---
\* Server._sendRequest applied to a socket and an envelope.  The endpoint
\* has a link to its peer and has sent nothing yet, or has one request
\* pending; the socket is that of the link, or the null that getSocket
\* returns for a name without a client object.
RequestEnvelopes ==
    { [id |-> i, sentBy |-> e, data |-> d] :
        i \in FrameIds, e \in Senders, d \in SendData }

InitRequest ==
    /\ now = StartClock
    /\ \E first \in {Undefined} \cup FrameIds :
          /\ handles = IF first = Undefined THEN << >>
                       ELSE << [owner |-> "one", id |-> first, by |-> "send"] >>
          /\ _promises = [e \in Names |->
                            IF e = "one" /\ first # Undefined
                            THEN MapSet(EmptyMap, first, 1) ELSE EmptyMap]
    /\ _sockets = [e \in Names |-> IF e = "one" THEN {"two"} ELSE {}]
    /\ _ready = [e \in Names |-> FALSE]
    /\ started \in [Names -> BOOLEAN]
    /\ listener = [e \in Names |-> "none"]
    /\ sends = << >>
    /\ attempts = << [client |-> 1, ignore |-> TRUE, state |-> "resolved",
                      fired |-> {"connect"}] >>
    /\ clients = << [owner |-> "one", target |-> "two", state |-> "connected",
                     current |-> TRUE, closed |-> FALSE] >>
    /\ toServer = [e \in Names |-> << >>]
    /\ toClient = << << >> >>
    /\ messages = << >>
    /\ replyArgs = NoArgs
    /\ envelope = NoEnvelope
    /\ ipcConfigId = [e \in Names |-> e]
    /\ forwarders = [e \in Names |-> NoForwarders]
    /\ last = Other

\* this._sendRequest(socket, data), as the last statement of send calls it
CallSendRequest(e, socket, data) ==
    /\ CanCreateHandle
    /\ LET w == _sendRequest(World, clients, e,
                             [k |-> socket, side |-> "client"], data, "send")
       IN  /\ handles' = w.handles
           /\ _promises' = w.promises
           /\ toServer' = w.toServer
           /\ toClient' = w.toClient
           /\ last' = Did("send", e, Get(data, "id"), NoFrame, FALSE, FALSE,
                          w.out)
    /\ UNCHANGED << now, _sockets, _ready, started, listener, sends, attempts,
                    clients, messages, replyArgs, envelope, ipcConfigId,
                    forwarders >>

NextRequest ==
    \E e \in Senders : \E socket \in {0, 1} : \E data \in RequestEnvelopes :
        CallSendRequest(e, socket, data)

SpecRequest == InitRequest /\ [][NextRequest]_vars

\* ------------------------------------------- the two inbound paths -------
\* One endpoint that has a link to its peer, requests pending or not, and
\* a 'message' or 'raw' listener on its own server: frames come in on the
\* client link (whatever the peer writes back) and on the server (requests
\* of peer processes).
RequestFrames ==
    { JSONRoundTrip([id |-> i, sentBy |-> e, data |-> d]) :
        i \in FrameIds, e \in Servers, d \in SendData }

\* the socket of a peer process these endpoints do not run
PeerSocket == 0

\* a peer process writes a request to the server of endpoint e
PeerSends(e, frame) ==
    /\ started[e]
    /\ Len(toServer[e]) < MaxMessages
    /\ toServer' = [toServer EXCEPT
                      ![e] = Append(@, [frame |-> frame,
                                        socket |-> PeerSocket])]
    /\ UNCHANGED << now, _promises, _sockets, _ready, started, listener,
                    handles, sends, attempts, clients, toClient, messages >>
    /\ last' = Other
    /\ UNCHANGED << replyArgs, envelope, ipcConfigId, forwarders >>

NextDispatch ==
    \/ \E e \in Senders : \E event \in {"message", "raw"} : On(e, event)
    \/ \E k \in 1..MaxAttempts : \E frame \in Arriving(k) : Receive(k, frame)
    \/ \E e \in Senders : \E frame \in RequestFrames : PeerSends(e, frame)
    \/ \E e \in Senders : ServerReceive(e)

SpecDispatch == InitRequest /\ [][NextDispatch]_vars

\* ------------------------------------------- frames that are no JSON -----
\* The endpoint of `InitRequest` and what arrives on its link: the frames of
\* `Arriving`, and texts that JSON.parse does not accept.
\* test/raw/test-one.js emits an object where Server emits a string, and
\* JSON.parse reads an object as the text "[object Object]"; the other text
\* is a frame cut short.
MalformedTexts == {"[object Object]", "{id:"}

\* what `out` lists when a handler ends by throwing
Thrown(error) ==
    [h |-> 0, how |-> "thrown", value |-> [error |-> error], first |-> TRUE]

\* The 'message' handlers of the client object k get a text that is no
\* JSON.  JSON.parse(data) is the first statement of the handler and is in
\* no try block: it throws a SyntaxError, the lines after it do not run, and
\* the exception leaves the handler and the emit that called it.
ReceiveMalformed(k, text) ==
    /\ k \in 1..Len(clients)
    /\ Writable(clients, k)
    /\ Handlers(k) > 0
    /\ last' = Did("malformed", clients[k].owner, Undefined, [text |-> text],
                   FALSE, FALSE, << Thrown("SyntaxError") >>)
    /\ UNCHANGED << now, _promises, _sockets, _ready, started, listener,
                    handles, sends, attempts, clients, toServer, toClient,
                    messages, replyArgs, envelope, ipcConfigId,
                    forwarders >>

NextInbound ==
    \/ \E k \in 1..MaxAttempts : \E frame \in Arriving(k) : Receive(k, frame)
    \/ \E k \in 1..MaxAttempts : \E text \in MalformedTexts :
          ReceiveMalformed(k, text)

SpecInbound == InitRequest /\ [][NextInbound]_vars

\* ----------------------------------- every operation of one endpoint -----
\* Server.stop()
Stop(e) ==
    /\ started[e]
    /\ started' = [started EXCEPT ![e] = FALSE]
    \* what was on its way to the server is lost with its connections
    /\ toServer' = [toServer EXCEPT ![e] = << >>]
    /\ UNCHANGED << now, _promises, _sockets, _ready, listener, handles,
                    sends, attempts, clients, toClient, messages >>
    /\ last' = Other
    /\ UNCHANGED << replyArgs, envelope, ipcConfigId, forwarders >>

\* The sending endpoint under what its application and its transport do
\* to it: connectTo, send, the signals and frames of its links, destroy,
\* and start and stop of its own server.
NextPending ==
    \/ \E e \in Senders : \E name \in Names \ {e} : ConnectTo(e, name)
    \/ \E e \in Senders : \E name \in Names \ {e} : \E data \in SendData :
          SendKnown(e, name, data)
    \/ \E e \in Senders : \E name \in Names \ {e} : \E data \in SendData :
          SendUnknown(e, name, data)
    \/ \E k \in 1..MaxAttempts : \E sig \in Signals : Signal(k, sig)
    \/ \E k \in 1..MaxAttempts : \E frame \in Arriving(k) : Receive(k, frame)
    \/ \E e \in Senders : Destroy(e)
    \/ \E e \in Senders : Start(e)
    \/ \E e \in Senders : Stop(e)

SpecPending == Init /\ [][NextPending]_vars

\* -------------------------------------- two Servers in one process -------
\* `ipc` is the one object require('node-ipc') returns in a process, and
\* every Server constructor assigns ipc.config.id.  Here one process has
\* run `new Server(name)` for both names, in either order.
ConstructionOrders == { << "one", "two" >>, << "two", "one" >> }

\* ipc.config.id after the constructors of `order` ran, from the value id
RECURSIVE ConfigIdAfter(_, _)
ConfigIdAfter(id, order) ==
    IF order = << >> THEN id ELSE ConfigIdAfter(Head(order), Tail(order))

InitShared ==
    /\ now = StartClock
    /\ _promises = [e \in Names |-> EmptyMap]
    /\ _sockets = [e \in Names |-> {}]
    /\ _ready = [e \in Names |-> FALSE]
    /\ started = [e \in Names |-> FALSE]
    /\ listener = [e \in Names |-> "none"]
    /\ handles = << >>
    /\ sends = << >>
    /\ attempts = << >>
    /\ clients = << >>
    /\ toServer = [e \in Names |-> << >>]
    /\ toClient = << >>
    /\ messages = << >>
    /\ replyArgs = NoArgs
    /\ envelope = NoEnvelope
    /\ \E order \in ConstructionOrders :
          ipcConfigId = [e \in Names |-> ConfigIdAfter("world", order)]
    /\ forwarders = [e \in Names |-> NoForwarders]
    /\ last = Other

\* Each of the two Servers connects and sends to the other name and is
\* destroyed; start() of either starts ipc.server, which serves the name in
\* ipc.config.id.
NextShared ==
    \/ \E e \in Names : \E name \in Names \ {e} : ConnectTo(e, name)
    \/ \E e \in Names : \E name \in Names \ {e} : \E data \in SendData :
          SendKnown(e, name, data)
    \/ \E e \in Names : \E name \in Names \ {e} : \E data \in SendData :
          SendUnknown(e, name, data)
    \/ \E k \in 1..MaxAttempts : \E sig \in Signals : Signal(k, sig)
    \/ \E e \in Names : Destroy(e)
    \/ \E e \in Names : Start(this_name(e))

SpecShared == InitShared /\ [][NextShared]_vars

\* ------------------------------------------ the 'message' listeners ------
\* One endpoint whose application calls on, once, start and destroy while
\* peer processes write requests to its server.
NextListeners ==
    \/ \E e \in Senders : \E event \in {"message", "raw"} : On(e, event)
    \/ \E e \in Senders : \E event \in {"message", "raw"} : Once(e, event)
    \/ \E e \in Senders : Start(e)
    \/ \E e \in Senders : Destroy(e)
    \/ \E e \in Senders : \E frame \in RequestFrames : PeerSends(e, frame)
    \/ \E e \in Senders : ServerReceive(e)

SpecListeners == Init /\ [][NextListeners]_vars

\* ------------------------------------------------------- properties -----
\* the promise a frame with this id would settle at endpoint e
Entry(e, id) == _promises[e][id]

\* C1: when an inbound frame carries an id that is in the pending table, the
\* handler removes that entry and settles its promise, once, with the whole
\* parsed frame: resolved when success is true, rejected when success is
\* false, another falsy value, or absent.
C1_Correlation ==
    [][(last'.op = "frame" /\ last'.hit)
         => LET e     == last'.e
                frame == last'.frame
                h     == Entry(e, Get(frame, "id"))
            IN  /\ h \in Pending(handles)
                /\ Get(frame, "id") \notin DOMAIN _promises'[e]
                /\ h \notin Pending(handles')
                /\ Len(last'.out) = 1
                /\ last'.out[1].h = h /\ last'.out[1].first
                /\ last'.out[1].value = frame
                /\ Get(frame, "success") = JsTrue
                      => last'.out[1].how = "resolved"
                /\ Get(frame, "success") \in {JsFalse, "0", "null", Undefined}
                      => last'.out[1].how = "rejected"]_vars

\* C1 witness: a frame without a success field has just rejected the
\* pending request of its id with that frame
C1_Witness ==
    /\ last.op = "frame" /\ last.hit
    /\ Len(last.out) = 1
    /\ last.out[1].first /\ last.out[1].how = "rejected"
    /\ Get(last.out[1].value, "id") = last.id
    /\ ~Has(last.out[1].value, "success")

\* C2: once the 'message' listener of the serving endpoint has called reply
\* on the Message of a request that is still pending at the sender, over a
\* link that is up, the reply envelope with the request's id and the chosen
\* success is on its way to the sender (and will settle the request).
C2_ReplyReachesSender ==
    (last.op = "reply" /\ replyArgs # NoArgs)
    => LET msg == messages[replyArgs.m]
           k   == msg.socket
       IN  (/\ Writable(clients, k)
            /\ msg.id \in DOMAIN _promises[clients[k].owner]
            /\ Entry(clients[k].owner, msg.id) \in Pending(handles))
           => \E i \in 1..Len(toClient[k]) :
                 /\ Get(toClient[k][i], "id") = msg.id
                 /\ Get(toClient[k][i], "success") =
                        DefaultSuccess(replyArgs.success)

\* C3: an inbound frame changes no pending entry and no promise other than
\* the entry and the promise registered under the frame's own id.
C3_NoCrossTalk ==
    [][last'.op = "frame"
         => LET e == last'.e
                A == Get(last'.frame, "id")
            IN  /\ \A B \in DOMAIN _promises[e] \ {A} :
                      /\ B \in DOMAIN _promises'[e]
                      /\ _promises'[e][B] = _promises[e][B]
                /\ \A f \in Names \ {e} : _promises'[f] = _promises[f]
                /\ \A h \in 1..Len(handles) :
                      (A \notin DOMAIN _promises[e] \/ h # Entry(e, A))
                      => handles'[h] = handles[h]
                /\ \A i \in 1..Len(last'.out) :
                      /\ A \in DOMAIN _promises[e]
                      /\ last'.out[i].h = Entry(e, A)]_vars

\* C3 witness: the reply of a later request has settled it while an
\* earlier request of the same endpoint is still pending
C3_Witness ==
    /\ last.op = "frame" /\ last.hit
    /\ Len(last.out) = 1 /\ last.out[1].first
    /\ \E B \in DOMAIN _promises[last.e] :
          /\ B # last.id
          /\ Entry(last.e, B) < last.out[1].h
          /\ Entry(last.e, B) \in Pending(handles)

\* C4: an inbound frame whose id is not in the pending table changes neither
\* the pending table nor the known-peer set nor any promise, and no promise
\* ever has resolve or reject called on it twice.
C4_StaleReply ==
    [][/\ (last'.op = "frame" /\ ~last'.hit)
            => /\ UNCHANGED << _promises, _sockets, handles >>
               /\ last'.out = << >>
       /\ \A i \in 1..Len(last'.out) : last'.out[i].first]_vars

\* C4 witness: a second frame for an id whose request the frame before it
\* settled has just been processed, while another request is pending
C4_Witness ==
    /\ last.op = "frame" /\ ~last.hit /\ last.dup
    /\ last.out = << >>
    /\ _promises[last.e] # EmptyMap

\* C5: the first reply() call on a Message marks it replied and transmits
\* the envelope; every later call on it returns a rejected promise.
C5_AtMostOnceReply ==
    \A m \in 1..Len(messages) :
        messages[m].outcomes # << >>
        => /\ messages[m]._replied
           /\ messages[m].outcomes[1] = "sent"
           /\ \A i \in 2..Len(messages[m].outcomes) :
                 messages[m].outcomes[i] = "rejected"

\* C6: destroy() leaves the pending table empty, and every promise returned
\* by send that was unsettled when destroy() was called is rejected by it,
\* once.
C6_DrainCompleteness ==
    [][last'.op = "destroy"
         => LET e == last'.e
            IN  /\ _promises'[e] = EmptyMap
                /\ \A h \in Pending(handles) :
                      (handles[h].owner = e /\ handles[h].by = "send")
                      => /\ h \notin Pending(handles')
                         /\ Cardinality({i \in 1..Len(last'.out) :
                                            last'.out[i].h = h}) = 1
                         /\ \A i \in 1..Len(last'.out) :
                               last'.out[i].h = h
                               => /\ last'.out[i].how = "rejected"
                                  /\ last'.out[i].first]_vars

\* C7: every unsettled promise returned by send is the value of an entry of
\* its endpoint's pending table.
C7_NoOrphan ==
    \A h \in Pending(handles) :
        handles[h].by = "send"
        => \E id \in DOMAIN _promises[handles[h].owner] :
              Entry(handles[h].owner, id) = h

\* C8: no step replaces the promise registered under an id that stays in
\* the pending table, so the pending requests of an endpoint have pairwise
\* distinct ids.
C8_NoReplace ==
    [][\A e \in Names :
         \A id \in (DOMAIN _promises[e]) \cap (DOMAIN _promises'[e]) :
            _promises'[e][id] = _promises[e][id]]_vars

\* C9: the envelope built by reply carries the id of the Message replied to.
C9_EnvelopeId ==
    envelope # NoEnvelope => Get(envelope, "id") = replyArgs.id

C11_SuccessSelection ==
    envelope # NoEnvelope
    => Get(envelope, "success") =
          IF "success" \in DOMAIN replyArgs.data
          THEN replyArgs.data["success"]
          ELSE IF replyArgs.success = Undefined THEN JsTrue
               ELSE replyArgs.success

\* C11 witness: reply(data) without a success argument, on a data object
\* that has no success property, has built an envelope with success true
C11_Witness ==
    /\ envelope # NoEnvelope
    /\ replyArgs.success = Undefined
    /\ ~Has(replyArgs.data, "success")
    /\ Has(replyArgs.data, "response")
    /\ Get(envelope, "success") = JsTrue

\* C12: the first reply() call on a Message hands the reply envelope to the
\* transport and leaves the pending table of the replying endpoint exactly
\* as it was before the call.
C12_ReplyRegistersNothing ==
    [][(last'.op = "reply" /\ ~messages[replyArgs'.m]._replied)
         => /\ envelope' # NoEnvelope
            /\ _promises'[last'.e] = _promises[last'.e]]_vars

\* the frames of q2 are frames of q1, in the same order: nothing was added
NothingWritten(q1, q2) ==
    \E keep \in SUBSET (1..Len(q1)) :
        q2 = [i \in 1..Cardinality(keep) |->
                 q1[CHOOSE j \in keep :
                       Cardinality({x \in keep : x <= j}) = i]]

\* C13: a send() for a peer that is not known calls connectTo and waits
\* without creating a promise, an entry or a frame; when the connectTo it
\* awaits is rejected, the promise of the send() is rejected, no frame is
\* written and the pending table is unchanged.
C13_ConnectFirst ==
    [][/\ Len(sends') > Len(sends)
            => /\ ~hasSocket(sends'[Len(sends')].owner,
                             sends'[Len(sends')].target)
               /\ Len(attempts') = Len(attempts) + 1
               /\ UNCHANGED << handles, _promises, toServer >>
       /\ \A i \in 1..Len(sends) :
             attempts'[sends[i].attempt].state = "rejected"
             => /\ last'.op = "signal"
                /\ Cardinality({j \in 1..Len(last'.out) :
                                   last'.out[j] = SendRejected})
                      = Cardinality({j \in 1..Len(sends) :
                            attempts'[sends[j].attempt].state = "rejected"})
                /\ \A j \in 1..Len(sends') : sends'[j] # sends[i]
                /\ UNCHANGED << handles, _promises >>
                /\ \A f \in Names : NothingWritten(toServer[f], toServer'[f])
      ]_vars

\* C13 witness: while the server of the peer listens, a send() that waited
\* for its link has just been rejected, and there is no promise, no entry
\* and no frame
C13_Witness ==
    /\ last.op = "signal" /\ last.out = << SendRejected >>
    /\ \E f \in Servers : started[f]
    /\ ~hasSocket(last.e, "two")
    /\ handles = << >> /\ sends = << >>
    /\ _promises[last.e] = EmptyMap
    /\ \A f \in Names : toServer[f] = << >>

\* C14: destroy() closes the link to every known peer and empties the
\* known-peer set, removes the registered listeners, and stops the serving
\* endpoint whenever start() had started it.
C14_DestroyReleases ==
    [][last'.op = "destroy"
         => LET e == last'.e
            IN  /\ \A name \in _sockets[e] :
                      ipcOf(clients, e, name) # 0
                      => clients'[ipcOf(clients, e, name)].closed
                /\ _sockets'[e] = {}
                /\ listener'[e] = "none"
                /\ started[e] => ~started'[e]]_vars

\* C15: a destroy() that directly follows a destroy() of the same endpoint
\* calls reject on no promise, and leaves the pending table and the
\* known-peer set empty.
C15_DestroyTwice ==
    (last.op = "destroy" /\ last.dup)
    => /\ last.out = << >>
       /\ _promises[last.e] = EmptyMap
       /\ _sockets[last.e] = {}

\* C15 witness: the second of two destroy() calls has run, after the first
\* one rejected a pending request
C15_Witness ==
    /\ last.op = "destroy" /\ last.dup
    /\ last.out = << >>
    /\ \E h \in 1..Len(handles) : handles[h] = Settled
    /\ \E k \in 1..Len(clients) : clients[k].owner = last.e /\ clients[k].closed

\* C16: the step that puts a request frame on a link also registers the
\* pending entry of its id, pointing at a promise made in that same step:
\* no step, and so no run of the inbound-frame handler, sees the frame on
\* the link without the entry in the table.
C16_RegisterWithTransmit ==
    [][\A f \in Names :
         \A i \in (Len(toServer[f]) + 1)..Len(toServer'[f]) :
            LET e  == clients'[toServer'[f][i].socket].owner
                id == Get(toServer'[f][i].frame, "id")
            IN  /\ id \in DOMAIN _promises'[e]
                /\ _promises'[e][id] > Len(handles)
                /\ _promises'[e][id] \in Pending(handles')
                /\ handles'[_promises'[e][id]].id = id]_vars

\* C16 witness: a request frame is on its way to the peer's server and
\* the entry of its id holds an unsettled promise of the sender
C16_Witness ==
    \E f \in Servers : \E i \in 1..Len(toServer[f]) :
        LET e  == clients[toServer[f][i].socket].owner
            id == Get(toServer[f][i].frame, "id")
        IN  /\ id \in DOMAIN _promises[e]
            /\ Entry(e, id) \in Pending(handles)
            /\ handles[Entry(e, id)].by = "send"

AttemptsOn(k) == {a \in 1..Len(attempts) : attempts[a].client = k}

\* C18 as claimed: once the promise of a connectTo call is settled, a
\* further signal of its client object changes neither that promise nor
\* the known-peer set.
C18_OneSignalActedOn ==
    [][\A k \in 1..Len(clients) :
         (clients'[k].state # clients[k].state
            /\ \E a \in AttemptsOn(k) : attempts[a].state # "pending")
         => /\ \A a \in AttemptsOn(k) :
                  attempts[a].state # "pending"
                  => attempts'[a].state = attempts[a].state
            /\ _sockets' = _sockets]_vars

\* C18 amended: the promise of a connectTo call is settled by the first
\* terminal signal and no later signal changes it; a disconnect never
\* changes the known-peer set; but a connect adds the peer to the set and a
\* destroy removes it whenever a connectTo call on the client object has
\* not seen that signal yet, its promise settled or not.
C18_PromiseOnce ==
    [][\A k \in 1..Len(clients) :
         clients'[k].state # clients[k].state
         => LET e    == clients[k].owner
                name == clients[k].target
            IN  /\ \A a \in AttemptsOn(k) :
                      attempts[a].state # "pending"
                      => attempts'[a].state = attempts[a].state
                /\ \A f \in Names \ {e} : _sockets'[f] = _sockets[f]
                /\ clients'[k].state = "disconnected" => _sockets' = _sockets
                /\ clients'[k].state = "connected"
                      => _sockets'[e] =
                            IF \E a \in AttemptsOn(k) :
                                  "connect" \notin attempts[a].fired
                            THEN _sockets[e] \cup {name} ELSE _sockets[e]
                /\ clients'[k].state = "destroyed"
                      => _sockets'[e] =
                            IF \E a \in AttemptsOn(k) :
                                  "destroy" \notin attempts[a].fired
                            THEN _sockets[e] \ {name} ELSE _sockets[e]]_vars

\* C18 witness: a connectTo call was rejected by a disconnect, its client
\* object connected afterwards, and the peer is known
C18_Witness ==
    \E a \in 1..Len(attempts) :
        /\ attempts[a].state = "rejected"
        /\ attempts[a].fired = {"disconnect", "connect"}
        /\ clients[attempts[a].client].state = "connected"
        /\ hasSocket(clients[attempts[a].client].owner,
                     clients[attempts[a].client].target)

\* C19: a peer name enters the known-peer set only in the step of a connect
\* signal of a client object for that peer, and is out of the set after
\* every destroy signal of such a client object and after destroy() of the
\* endpoint, so a known peer has had a connect signal with neither of the
\* two since; a pending connectTo promise is resolved by connect and by
\* nothing else, and rejected by disconnect and by destroy.
C19_KnownPeers ==
    [][/\ \A e \in Names : \A name \in _sockets'[e] \ _sockets[e] :
             \E k \in 1..Len(clients) :
                /\ clients[k].owner = e /\ clients[k].target = name
                /\ clients[k].state # "connected"
                /\ clients'[k].state = "connected"
       /\ \A k \in 1..Len(clients) :
             (clients[k].state # "destroyed" /\ clients'[k].state = "destroyed")
             => clients[k].target \notin _sockets'[clients[k].owner]
       /\ last'.op = "destroy" => _sockets'[last'.e] = {}
       /\ \A a \in 1..Len(attempts) :
             LET k == attempts[a].client
             IN  /\ (attempts[a].state = "pending"
                       /\ clients'[k].state # clients[k].state)
                    => attempts'[a].state =
                          IF clients'[k].state = "connected"
                          THEN "resolved" ELSE "rejected"
                 /\ attempts'[a].state # attempts[a].state
                    => clients'[k].state # clients[k].state]_vars

\* C19 witness: a peer that was known after the connect signal of its
\* client object is not known after the destroy signal of that object
C19_Witness ==
    \E a \in 1..Len(attempts) :
        /\ attempts[a].state = "resolved"
        /\ {"connect", "destroy"} \subseteq attempts[a].fired
        /\ clients[attempts[a].client].state = "destroyed"
        /\ ~hasSocket(clients[attempts[a].client].owner,
                      clients[attempts[a].client].target)

\* the endpoint whose server has just read a frame, as a set
ServerRead == {e \in Names : toServer[e] # << >>
                             /\ toServer'[e] = Tail(toServer[e])}

\* C20 as claimed: an inbound envelope whose id is in the pending table of
\* the endpoint is settled and not handed to the 'message' listener; any
\* other inbound envelope is handed to the registered 'message' listener
\* as a Message with the envelope's id, sentBy and data and the socket.
C20_OneDispatchRule ==
    [][/\ last'.op = "frame"
            => IF last'.hit
               THEN messages' = messages /\ last'.out # << >>
               ELSE listener[last'.e] = "message"
                    => /\ Len(messages') = Len(messages) + 1
                       /\ messages'[Len(messages')].id = last'.id
       /\ \A e \in ServerRead :
             LET read == Head(toServer[e])
             IN  IF Get(read.frame, "id") \in DOMAIN _promises[e]
                 THEN /\ messages' = messages
                      /\ Get(read.frame, "id") \notin DOMAIN _promises'[e]
                 ELSE listener[e] = "message"
                      => messages' =
                            Append(messages,
                                   [client |-> e, socket |-> read.socket,
                                    id |-> Get(read.frame, "id"),
                                    sentBy |-> Get(read.frame, "sentBy"),
                                    data |-> Get(read.frame, "data"),
                                    _replied |-> FALSE, outcomes |-> << >>])
      ]_vars

\* C20 amended: the path decides.  A frame read on a client link settles
\* the pending request of its id, or is dropped when there is none, and is
\* never handed to the listener.  A frame read by the endpoint's server is
\* handed to the 'message' listener as a Message with the frame's id,
\* sentBy and data and the socket, also when its id is in the pending
\* table, and it settles nothing.
C20_DispatchByPath ==
    [][/\ last'.op = "frame"
            => /\ messages' = messages
               /\ last'.hit <=> last'.out # << >>
       /\ \A e \in ServerRead :
             LET read == Head(toServer[e])
             IN  /\ UNCHANGED << _promises, handles >>
                 /\ messages' =
                       IF listener[e] = "message"
                       THEN Append(messages,
                                   [client |-> e, socket |-> read.socket,
                                    id |-> Get(read.frame, "id"),
                                    sentBy |-> Get(read.frame, "sentBy"),
                                    data |-> Get(read.frame, "data"),
                                    _replied |-> FALSE, outcomes |-> << >>])
                       ELSE messages]_vars

\* C20 witness: the 'message' listener got a Message whose id is the id
\* of a request that is pending at that endpoint
C20_Witness ==
    \E m \in 1..Len(messages) :
        /\ messages[m].id \in DOMAIN _promises[messages[m].client]
        /\ Entry(messages[m].client, messages[m].id) \in Pending(handles)
        /\ messages[m].sentBy \in Servers
        /\ listener[messages[m].client] = "message"


\* C21: a text that is no JSON, arriving on a link, is dropped: the handler
\* throws nothing, the pending table, the known-peer set and the promises
\* stay as they were, and the endpoint emits its 'error' event for it.
C21_MalformedDropped ==
    [][last'.op = "malformed"
         => /\ \A i \in 1..Len(last'.out) : last'.out[i].how # "thrown"
            /\ \E i \in 1..Len(last'.out) : last'.out[i].how = "error event"
            /\ UNCHANGED << _promises, _sockets, handles >>]_vars


\* C22: the id of a pending request leaves the pending table, and the
\* promise of an entry is settled, only in the step of an inbound frame
\* with that id or of destroy() of the endpoint; and an entry that stays
\* keeps its promise unless a send() registers a request under that same
\* id.  So the signals of the links, send for another id, connectTo, start
\* and stop leave the pending entries and their promises as they were.
C22_OnlyReplyOrDestroy ==
    [][\A e \in Names : \A id \in DOMAIN _promises[e] :
         LET h       == Entry(e, id)
             settles == \/ last'.op = "frame" /\ last'.e = e /\ last'.id = id
                        \/ last'.op = "destroy" /\ last'.e = e
             resent  == \E n \in (Len(handles) + 1)..Len(handles') :
                           /\ handles'[n] = [owner |-> e, id |-> id,
                                             by |-> "send"]
                           /\ _promises'[e][id] = n
         IN  /\ id \notin DOMAIN _promises'[e] => settles
             /\ (id \in DOMAIN _promises'[e] /\ _promises'[e][id] # h)
                   => resent
             /\ handles'[h] # handles[h] => settles
             /\ (\E i \in 1..Len(last'.out) : last'.out[i].h = h) => settles
      ]_vars

\* C22 witness: the link a request was sent on has been disconnected and
\* destroyed, the server of the endpoint was started, and the request is
\* still in the pending table with its promise unsettled
C22_Witness ==
    \E e \in Senders : \E id \in DOMAIN _promises[e] :
        /\ Entry(e, id) \in Pending(handles)
        /\ \E k \in 1..Len(clients) :
              /\ clients[k].owner = e
              /\ clients[k].state = "destroyed"
        /\ started[e]


\* data objects a responder may hand to reply(data, false): those of
\* `EnvelopeData`, and two that use the reason of destroy() themselves
RejectData ==
    EnvelopeData \cup
        { [reason |-> "Client destroyed."],
          [reason |-> "Client destroyed.", success |-> Undefined] }

\* the values a request is rejected with when the frame of a
\* reply(data, false) settles it: the envelope as the sender parses it,
\* where its success is falsy
ReplyRejections ==
    { v \in { JSONRoundTrip(ReplyEnvelope(DefaultSuccess(JsFalse), d)) :
                d \in RejectData } :
        ~Truthy(Get(v, "success")) }

\* C23: destroy() rejects every promise returned by send that is unsettled
\* when it is called, with the payload { reason: 'Client destroyed.' }, and
\* no reply(data, false) of a responder rejects a request with that value.
C23_DestroyRejection ==
    [][last'.op = "destroy"
         => /\ \A h \in Pending(handles) :
                  (handles[h].owner = last'.e /\ handles[h].by = "send")
                  => \E i \in 1..Len(last'.out) :
                        last'.out[i] = [h |-> h, how |-> "rejected",
                                        value |-> DestroyReason,
                                        first |-> TRUE]
            /\ DestroyReason \notin ReplyRejections]_vars


\* the request envelope of send(name, data) of endpoint e at clock value t
RequestEnvelope(e, data, t) ==
    [id     |-> IF "id" \in DOMAIN data THEN data["id"] ELSE _generateID(t),
     sentBy |-> e,
     data   |-> data]

\* In this step a send(name, data) of endpoint e got past its await: it
\* made promise n, registered it under the id of its envelope and, over a
\* link that is up to a server that listens, wrote the envelope as frame p.
\* Without a client object for the name it made a rejected promise only.
SentAs(e, name, data, n, p) ==
    LET env == RequestEnvelope(e, data, now)
        k   == getSocket(clients', e, name)
    IN  IF k = 0 THEN handles'[n] = Settled
        ELSE /\ handles'[n] = [owner |-> e, id |-> env.id, by |-> "send"]
             /\ env.id \in DOMAIN _promises'[e]
             /\ _promises'[e][env.id] >= n
             /\ handles'[_promises'[e][env.id]].id = env.id
             /\ (Writable(clients', k) /\ started[name])
                   => /\ p \in 1..Len(toServer'[name])
                      /\ toServer'[name][p] = [frame |-> env, socket |-> k]

\* C24: send takes the id of its payload when the payload has an id field
\* and a generated id otherwise; it transmits the envelope { id, sentBy:
\* the name of the sending endpoint, data: the payload } and registers the
\* pending entry under that id.  This holds for a send to a known peer and
\* for a send that continues after the connectTo it awaited is resolved.
C24_RequestEnvelope ==
    [][/\ \A e \in Senders : \A name \in Names \ {e} : \A data \in SendData :
             SendKnown(e, name, data)
             => SentAs(e, name, data, Len(handles) + 1,
                       Len(toServer[name]) + 1)
       /\ \A i \in 1..Len(sends) :
             attempts'[sends[i].attempt].state = "resolved"
             => LET j == Cardinality({x \in 1..i :
                            attempts'[sends[x].attempt].state = "resolved"})
                IN  SentAs(sends[i].owner, sends[i].target, sends[i].data,
                           Len(handles) + j,
                           Len(toServer[sends[i].target]) + j)]_vars

\* C24 witness: a request with a generated id and one with the id of its
\* payload are on their way to the peer, each registered under its id
C24_Witness ==
    \E f \in Servers :
        /\ Len(toServer[f]) = 2
        /\ \E i, j \in 1..2 :
              /\ ~Has(toServer[f][i].frame.data, "id")
              /\ toServer[f][i].frame.id = _generateID(StartClock)
              /\ Has(toServer[f][j].frame.data, "id")
              /\ toServer[f][j].frame.id = toServer[f][j].frame.data.id
        /\ \A i \in 1..2 :
              /\ toServer[f][i].frame.sentBy \in Senders
              /\ toServer[f][i].frame.id
                    \in DOMAIN _promises[toServer[f][i].frame.sentBy]


\* C25: of two Servers made in one process, a step changes the pending
\* table and the known-peer set of one at most, and every request frame
\* carries as sentBy the name its sender was constructed with.
C25_Isolation ==
    [][/\ Cardinality({e \in Names : \/ _promises'[e] # _promises[e]
                                     \/ _sockets'[e] # _sockets[e]}) <= 1
       /\ \A f \in Names :
             \A i \in (Len(toServer[f]) + 1)..Len(toServer'[f]) :
                toServer'[f][i].frame.sentBy
                   = clients'[toServer'[f][i].socket].owner]_vars


\* C26: a send() that was suspended in `await connectTo` while destroy()
\* of its endpoint ran registers no pending request when it continues: it
\* fails, or its promise is rejected.  Stated for the continuation that
\* directly follows the destroy(): that step makes no unsettled promise and
\* leaves the drained pending table empty.
C26_NoSendAfterDrain ==
    [][(/\ last.op = "destroy"
        /\ \E i \in 1..Len(sends) :
              /\ sends[i].owner = last.e
              /\ \A j \in 1..Len(sends') : sends'[j] # sends[i])
         => /\ Pending(handles') \subseteq Pending(handles)
            /\ _promises'[last.e] = EmptyMap]_vars


\* C27: the 'message' event of a Server has one listener at most, installed
\* by the first on or once for 'message' or 'raw', and ipc.server carries
\* exactly one listener that forwards the event while the Server has a
\* listener for it, and none that Server added otherwise.
C27_OneListener ==
    \A e \in Names :
        forwarders[e].on + forwarders[e].once
           = IF listener[e] = "none" THEN 0 ELSE 1

=============================================================================
